---- MODULE Spec2Model ----
(***************************************************************************)
(* Workbook-to-record extraction of kosovatools/energy-data:               *)
(*   scripts/generate_prishtina_building_permits.py  (permits pipeline)    *)
(*   scripts/generate_me_accreditation.py            (accreditation)       *)
(*                                                                         *)
(* Text is a sequence of one-character strings.  A cell value is a record  *)
(* [k, s, n]: k its Python type, s its text, n its number.                 *)
(***************************************************************************)
EXTENDS Integers, Sequences, FiniteSets, TLC

VARIABLES
    fn,       \* pure-function harness: the function under application
    arg,      \* its input value
    out,      \* its result after one application
    out2,     \* the result of applying it to its own result
    hpc,      \* harness position: "idle" | "ready" | "once" | "twice"
    path,     \* the input file: its stem and its workbook
    pc,       \* the position in parse_workbook / parse_accredited_programmes
    frame,    \* what load_dataframe / load_accredited_dataframe returned
    cmap,     \* the column mapping and the locals derived from it
    wb,       \* the openpyxl handle: "unopened" | "open" | "closed"
    cursor,   \* the position of the row loop in the data
    records,  \* the records appended so far
    origin,   \* history: the row index each record was built from
    ret       \* what the caller gets: pending, a value, or an exception

hvars == <<fn, arg, out, out2, hpc>>

pvars == <<path, pc, frame, cmap, wb, cursor, records, origin, ret>>

vars == <<fn, arg, out, out2, hpc, path, pc, frame, cmap, wb, cursor, records, origin, ret>>

(***************************************************************************)
(* Values                                                                  *)
(***************************************************************************)
\* Python None
NoneV == [k |-> "none", s |-> <<>>, n |-> 0]
\* float('nan'), the value pandas gives an empty cell
NaNV == [k |-> "nan", s |-> <<>>, n |-> 0]
\* a str
StrV(t) == [k |-> "str", s |-> t, n |-> 0]
\* an exception leaving the function
RaiseV(exc) == [k |-> "raise", s |-> <<exc>>, n |-> 0]
\* Optional[str]: the text, or None for the empty text
OptStr(t) == IF t = <<>> THEN NoneV ELSE StrV(t)

\* a local variable: e is evaluated once, and F is given its value
Local(e, F(_)) == CHOOSE r \in {F(x) : x \in {e}} : TRUE

(***************************************************************************)
(* Text primitives (str.strip, re.sub)                                     *)
(***************************************************************************)
Whitespace == {" ", "\n", "\r", "\t"}

RECURSIVE LStripSet(_, _)
LStripSet(s, S) ==
    IF s = <<>> THEN <<>>
    ELSE IF Head(s) \in S THEN LStripSet(Tail(s), S) ELSE s

RECURSIVE RStripSet(_, _)
RStripSet(s, S) ==
    IF s = <<>> THEN <<>>
    ELSE IF s[Len(s)] \in S THEN RStripSet(SubSeq(s, 1, Len(s) - 1), S) ELSE s

StripSet(s, S) == RStripSet(LStripSet(s, S), S)

\* str.strip()
Strip(s) == StripSet(s, Whitespace)

\* re.sub(r"[S]+", rep, s): every maximal run of characters of S becomes rep
RECURSIVE SubRuns(_, _, _)
SubRuns(s, S, rep) ==
    IF s = <<>> THEN <<>>
    ELSE IF Head(s) \in S THEN rep \o SubRuns(LStripSet(s, S), S, rep)
    ELSE <<Head(s)>> \o SubRuns(Tail(s), S, rep)

StartsWith(t, p) == Len(t) >= Len(p) /\ SubSeq(t, 1, Len(p)) = p

\* str.replace(p, r) for a non-empty p
RECURSIVE Replace(_, _, _)
Replace(t, p, r) ==
    IF t = <<>> THEN <<>>
    ELSE IF StartsWith(t, p)
         THEN r \o Replace(SubSeq(t, Len(p) + 1, Len(t)), p, r)
    ELSE <<Head(t)>> \o Replace(Tail(t), p, r)

\* text.replace("\r\n", "\n").replace("\r", "\n")
ReplaceCRLF(s) == Replace(Replace(s, <<"\r", "\n">>, <<"\n">>), <<"\r">>, <<"\n">>)

\* re.sub(r",\s*,", ", ", s): leftmost non-overlapping matches
RECURSIVE SubCommaWsComma(_)
SubCommaWsComma(s) ==
    IF s = <<>> THEN <<>>
    ELSE LET rest == LStripSet(Tail(s), Whitespace) IN
         IF Head(s) = "," /\ rest # <<>> /\ Head(rest) = ","
         THEN <<",", " ">> \o SubCommaWsComma(Tail(rest))
         ELSE <<Head(s)>> \o SubCommaWsComma(Tail(s))

\* re.sub(r"\s+,", ",", s)
RECURSIVE SubWsComma(_)
SubWsComma(s) ==
    IF s = <<>> THEN <<>>
    ELSE LET rest == LStripSet(s, Whitespace) IN
         IF Head(s) \in Whitespace /\ rest # <<>> /\ Head(rest) = ","
         THEN <<",">> \o SubWsComma(Tail(rest))
         ELSE <<Head(s)>> \o SubWsComma(Tail(s))

\* re.sub(r",\s+", ", ", s)
RECURSIVE SubCommaWs(_)
SubCommaWs(s) ==
    IF s = <<>> THEN <<>>
    ELSE IF Head(s) = "," /\ Len(s) >= 2 /\ s[2] \in Whitespace
         THEN <<",", " ">> \o SubCommaWs(LStripSet(Tail(s), Whitespace))
    ELSE <<Head(s)>> \o SubCommaWs(Tail(s))

\* re.sub(r"qq+", "q", s): a run of two or more quotes q becomes one
RECURSIVE SubRepeated(_, _)
SubRepeated(s, q) ==
    IF s = <<>> THEN <<>>
    ELSE IF Head(s) = q /\ Len(s) >= 2 /\ s[2] = q
         THEN <<q>> \o SubRepeated(LStripSet(s, {q}), q)
    ELSE <<Head(s)>> \o SubRepeated(Tail(s), q)

\* re.sub(r"q(?=\s)", "", s): a quote q followed by whitespace is removed
RECURSIVE SubBeforeWs(_, _)
SubBeforeWs(s, q) ==
    IF s = <<>> THEN <<>>
    ELSE IF Head(s) = q /\ Len(s) >= 2 /\ s[2] \in Whitespace
         THEN SubBeforeWs(Tail(s), q)
    ELSE <<Head(s)>> \o SubBeforeWs(Tail(s), q)

(***************************************************************************)
(* clean_text                                                              *)
(***************************************************************************)
\* str(value) of a value that is neither None nor NaN
Str(v) == v.s

\* permits clean_text, lines 159-173, on the text of str(value)
CleanSteps(t) ==
    Local(Strip(t), LAMBDA t0 :
    LET t1 == ReplaceCRLF(t0)
        t2 == SubRuns(t1, {"\n"}, <<",", " ">>)
        t3 == SubRuns(t2, Whitespace, <<" ">>)
        t4 == SubCommaWsComma(t3)
        t5 == SubWsComma(t4)
        t6 == SubCommaWs(t5)
        t7 == SubRepeated(t6, "'")
        t8 == SubRepeated(t7, "\"")
        t9 == SubBeforeWs(t8, "'")
        t10 == SubBeforeWs(t9, "\"")
    IN  IF t0 = <<>> THEN <<>> ELSE StripSet(t10, {" ", ",", "\"", "'"}))

\* permits clean_text(value) -> Optional[str]
clean_text(v) ==
    IF v.k \in {"none", "nan"} THEN NoneV ELSE OptStr(CleanSteps(Str(v)))

\* the text of clean_text(value), empty for None
CleanT(v) == clean_text(v).s

\* accreditation clean_text(value) -> str | None, lines 72-78; pd.isna of a
\* multi-valued cell is an array, whose truth value raises ValueError
acc_clean_text(v) ==
    IF v.k \in {"none", "nan"} THEN NoneV
    ELSE IF v.k = "series" THEN RaiseV("ValueError")
    ELSE Local(Strip(Str(v)), LAMBDA text :
             IF text = <<>> THEN NoneV ELSE StrV(SubRuns(text, Whitespace, <<" ">>)))

(***************************************************************************)
(* Numbers and dates                                                       *)
(* An int carries its value in n; a float carries its value in thousandths *)
(* in n (texts of the model have at most three fractional digits); a date  *)
(* carries yyyymmdd in n.  Every value carries the text of str(value) in s.*)
(***************************************************************************)
Digits == <<"0", "1", "2", "3", "4", "5", "6", "7", "8", "9">>

IsDigit(c) == \E i \in 1..10 : Digits[i] = c

DigitVal(c) == (CHOOSE i \in 1..10 : Digits[i] = c) - 1

AllDigits(ds) == Local(ds, LAMBDA t : \A i \in 1..Len(t) : IsDigit(t[i]))

RECURSIVE DigitsValue(_)
DigitsValue(ds) ==
    IF ds = <<>> THEN 0
    ELSE DigitsValue(SubSeq(ds, 1, Len(ds) - 1)) * 10 + DigitVal(ds[Len(ds)])

\* str(n) of an int n >= 0
RECURSIVE IntText(_)
IntText(n) ==
    IF n < 10 THEN <<Digits[n + 1]>>
    ELSE IntText(n \div 10) \o <<Digits[(n % 10) + 1]>>

IntV(i) == [k |-> "int", s |-> IntText(i), n |-> i]
\* a float read from a cell, with its text
FloatV(m, t) == [k |-> "float", s |-> t, n |-> m]
\* a float computed by the program
NumV(m) == [k |-> "float", s |-> <<>>, n |-> m]
\* float('inf')
InfV == [k |-> "inf", s |-> <<"i", "n", "f">>, n |-> 0]
\* a Python int beyond the range of a double (its digits abbreviated)
BigIntV == [k |-> "bigint", s |-> <<"1", "0", "0", "0">>, n |-> 0]
\* what row.get returns when several columns carry the same name: a
\* pandas Series, with the text of str(Series)
SeriesV == [k |-> "series", s |-> <<"d", "t", "y", "p", "e", ":", " ", "o">>, n |-> 0]

\* date.isoformat()
IsoText(d) ==
    LET t == IntText(d) IN
    SubSeq(t, 1, 4) \o <<"-">> \o SubSeq(t, 5, 6) \o <<"-">> \o SubSeq(t, 7, 8)

\* a datetime read from a cell; str(datetime) is the date and the time
DateV(d) ==
    [k |-> "date", n |-> d,
     s |-> IsoText(d) \o <<" ", "0", "0", ":", "0", "0", ":", "0", "0">>]

\* float(text): [ok, m], ok FALSE for ValueError
ParseFloat(t) ==
    Local(Strip(t), LAMBDA u :
    Local(IF u # <<>> /\ Head(u) \in {"-", "+"} THEN Tail(u) ELSE u, LAMBDA body :
    Local({i \in 1..Len(body) : body[i] = "."}, LAMBDA dots :
    Local(IF dots = {} THEN Len(body) + 1 ELSE CHOOSE i \in dots : TRUE, LAMBDA d :
    Local(SubSeq(body, 1, d - 1), LAMBDA ip :
    Local(SubSeq(body, d + 1, Len(body)), LAMBDA fp :
        IF Cardinality(dots) > 1 \/ ~AllDigits(ip \o fp) \/ ip \o fp = <<>>
        THEN [ok |-> FALSE, m |-> 0]
        ELSE Local(DigitsValue(ip) * 1000
                       + DigitsValue(SubSeq(fp \o <<"0", "0", "0">>, 1, 3)),
                   LAMBDA mag :
                       [ok |-> TRUE, m |-> IF Head(u) = "-" THEN 0 - mag ELSE mag])))))))

\* round(): m to the nearest multiple of u, ties to the even multiple
RoundHalfEven(m, u) ==
    LET q == m \div u
        r == m % u
    IN  IF 2 * r < u THEN q * u
        ELSE IF 2 * r > u THEN (q + 1) * u
        ELSE IF q % 2 = 0 THEN q * u ELSE (q + 1) * u

\* float(value): "ok" with thousandths m, "inf", or the exception raised
ToFloat(v) ==
    CASE v.k = "int" -> [r |-> "ok", m |-> v.n * 1000]
      [] v.k = "float" -> [r |-> "ok", m |-> v.n]
      [] v.k = "inf" -> [r |-> "inf", m |-> 0]
      [] v.k = "bigint" -> [r |-> "OverflowError", m |-> 0]
      [] v.k = "str" ->
           Local(ParseFloat(v.s), LAMBDA num :
               IF num.ok THEN [r |-> "ok", m |-> num.m] ELSE [r |-> "ValueError", m |-> 0])
      [] OTHER -> [r |-> "TypeError", m |-> 0]

\* dd/mm/yyyy or mm/dd/yyyy
IsSlashDate(u) ==
    /\ Len(u) = 10
    /\ u[3] = "/" /\ u[6] = "/"
    /\ AllDigits(SubSeq(u, 1, 2) \o SubSeq(u, 4, 5) \o SubSeq(u, 7, 10))

\* yyyy-mm-dd
IsIsoDate(u) ==
    /\ Len(u) = 10
    /\ u[5] = "-" /\ u[8] = "-"
    /\ AllDigits(SubSeq(u, 1, 4) \o SubSeq(u, 6, 7) \o SubSeq(u, 9, 10))

Ymd(y, m, d) ==
    IF m \in 1..12 /\ d \in 1..31
    THEN [ok |-> TRUE, d |-> y * 10000 + m * 100 + d]
    ELSE [ok |-> FALSE, d |-> 0]

\* pd.to_datetime(text, errors="coerce", dayfirst=...): [ok, d], ok FALSE for NaT.
\* The day comes first when dayfirst and the second number can be a month,
\* or when the first number cannot be a month.
ParseDateText(t, dayfirst) ==
    Local(Strip(t), LAMBDA u :
    LET a == DigitsValue(SubSeq(u, 1, 2))
        b == DigitsValue(SubSeq(u, 4, 5))
    IN  IF IsSlashDate(u)
        THEN IF (dayfirst /\ b <= 12) \/ a > 12
             THEN Ymd(DigitsValue(SubSeq(u, 7, 10)), b, a)
             ELSE Ymd(DigitsValue(SubSeq(u, 7, 10)), a, b)
        ELSE IF IsIsoDate(u)
        THEN Ymd(DigitsValue(SubSeq(u, 1, 4)), DigitsValue(SubSeq(u, 6, 7)),
                 DigitsValue(SubSeq(u, 9, 10)))
        ELSE [ok |-> FALSE, d |-> 0])

\* the day of the epoch: a small number is taken as nanoseconds since it
EpochDay == 19700101

\* pd.to_datetime(value, errors="coerce", dayfirst=...) of one value
ToDatetime(v, dayfirst) ==
    CASE v.k = "date" -> [ok |-> TRUE, d |-> v.n]
      [] v.k = "str" -> ParseDateText(v.s, dayfirst)
      [] v.k \in {"int", "float"} -> [ok |-> TRUE, d |-> EpochDay]
      [] OTHER -> [ok |-> FALSE, d |-> 0]

(***************************************************************************)
(* Value Coercer                                                           *)
(***************************************************************************)
\* pd.isna(value) used as a condition: True, False, or ValueError for a
\* multi-valued cell (the truth value of an array is ambiguous)
IsNaCond(v) ==
    IF v.k = "series" THEN "ValueError"
    ELSE IF v.k \in {"none", "nan"} THEN "True" ELSE "False"

\* accreditation to_int, lines 81-88
to_int(v) ==
    IF v.k = "none" \/ IsNaCond(v) = "True" THEN NoneV
    ELSE IF IsNaCond(v) = "ValueError" THEN RaiseV("ValueError")
    ELSE IF ToFloat(v).r = "ok"
         THEN [k |-> "int", s |-> <<>>, n |-> RoundHalfEven(ToFloat(v).m, 1000) \div 1000]
    ELSE NoneV

\* accreditation to_float, lines 91-98
to_float(v) ==
    IF v.k = "none" \/ IsNaCond(v) = "True" THEN NoneV
    ELSE IF IsNaCond(v) = "ValueError" THEN RaiseV("ValueError")
    ELSE IF ToFloat(v).r = "ok" THEN NumV(RoundHalfEven(ToFloat(v).m, 10))
    ELSE IF ToFloat(v).r = "inf" THEN InfV
    ELSE NoneV

\* accreditation format_date, lines 101-107
format_date(v) ==
    IF v.k = "none" \/ IsNaCond(v) = "True" THEN NoneV
    ELSE IF IsNaCond(v) = "ValueError" THEN RaiseV("ValueError")
    ELSE IF ToDatetime(v, FALSE).ok THEN StrV(IsoText(ToDatetime(v, FALSE).d))
    ELSE NoneV

\* count(".") > 1: head, tail = text.rsplit(".", 1); head without its dots
JoinThousands(text) ==
    Local(text, LAMBDA t :
    Local({i \in 1..Len(t) : t[i] = "."}, LAMBDA dots :
        IF Cardinality(dots) > 1
        THEN Local(CHOOSE i \in dots : \A j \in dots : j <= i, LAMBDA last :
                 Replace(SubSeq(t, 1, last - 1), <<".">>, <<>>) \o SubSeq(t, last, Len(t)))
        ELSE t))

\* permits parse_decimal, lines 233-255
parse_decimal(v) ==
    IF v.k \in {"none", "nan"} THEN NoneV
    ELSE IF v.k \in {"int", "float", "inf", "bigint"}
    THEN (IF ToFloat(v).r = "ok" THEN NumV(RoundHalfEven(ToFloat(v).m, 10))
          ELSE IF ToFloat(v).r = "inf" THEN InfV
          ELSE RaiseV(ToFloat(v).r))
    ELSE LET t1 == Replace(Replace(Str(v), <<"<euro>">>, <<>>), <<"E", "U", "R">>, <<>>)
             t2 == Replace(Replace(t1, <<" ">>, <<>>), <<",">>, <<".">>)
         IN  IF Str(v) = <<>> THEN NoneV
             ELSE Local(ParseFloat(JoinThousands(t2)), LAMBDA num :
                      IF ~num.ok THEN NoneV ELSE NumV(RoundHalfEven(num.m, 10)))

\* permits parse_date, lines 258-264: of a multi-valued cell pd.to_datetime
\* gives an array, and "if pd.isna(ts)" raises ValueError
parse_date(v) ==
    IF v.k \in {"none", "nan"} THEN NoneV
    ELSE IF v.k = "series" THEN RaiseV("ValueError")
    ELSE IF ToDatetime(v, TRUE).ok THEN StrV(IsoText(ToDatetime(v, TRUE).d))
    ELSE NoneV

(***************************************************************************)
(* Sheets (openpyxl) and the hyperlink coercion                            *)
(* A sheet is a sequence of rows of cells [v, link]: v the cell's value    *)
(* (None when empty), link its hyperlink target (empty when it has none).  *)
(***************************************************************************)
UpperCase == <<"A", "B", "C", "D", "E", "F", "G", "H", "I", "J", "K", "L", "M",
               "N", "O", "P", "Q", "R", "S", "T", "U", "V", "W", "X", "Y", "Z",
               "<E:>", "<C,>">>

LowerCase == <<"a", "b", "c", "d", "e", "f", "g", "h", "i", "j", "k", "l", "m",
               "n", "o", "p", "q", "r", "s", "t", "u", "v", "w", "x", "y", "z",
               "<e:>", "<c,>">>

\* The letters: A-Z and, as "<E:>" and "<C,>", the accented letters of the
\* source language (E with diaeresis, C with cedilla)
Letters == 1..Len(UpperCase)

\* str.lower() of one character
LowerChar(c) ==
    IF \E i \in Letters : UpperCase[i] = c
    THEN LowerCase[CHOOSE i \in Letters : UpperCase[i] = c]
    ELSE c

\* str.upper() of one character
UpperChar(c) ==
    IF \E i \in Letters : LowerCase[i] = c
    THEN UpperCase[CHOOSE i \in Letters : LowerCase[i] = c]
    ELSE c

\* str.lower()
Lower(text) == Local(text, LAMBDA t : [i \in 1..Len(t) |-> LowerChar(t[i])])

Cell(v, link) == [v |-> v, link |-> link]

EmptyCell == Cell(NoneV, <<>>)

\* Optional[int] None for a column index
NoCol == -1

\* excel_column_letter, lines 290-299
RECURSIVE excel_column_letter(_)
excel_column_letter(idx) ==
    (IF idx \div 26 - 1 >= 0 THEN excel_column_letter(idx \div 26 - 1) ELSE <<>>)
        \o <<UpperCase[(idx % 26) + 1]>>

\* openpyxl's column number of a column letter
RECURSIVE ColumnNumber(_)
ColumnNumber(letters) ==
    IF letters = <<>> THEN 0
    ELSE ColumnNumber(SubSeq(letters, 1, Len(letters) - 1)) * 26
         + (CHOOSE i \in 1..26 : UpperCase[i] = letters[Len(letters)])

\* sheet[f"{column_letter}{excel_row}"]: a cell outside the used range is empty
SheetCell(sheet, letters, excel_row) ==
    IF excel_row \in 1..Len(sheet) /\ ColumnNumber(letters) \in 1..Len(sheet[excel_row])
    THEN sheet[excel_row][ColumnNumber(letters)]
    ELSE EmptyCell

\* extract_hyperlink, lines 339-349
extract_hyperlink(sheet, column_index, excel_row) ==
    IF column_index = NoCol THEN NoneV
    ELSE LET cell == SheetCell(sheet, excel_column_letter(column_index), excel_row) IN
         IF cell.link # <<>> THEN StrV(Strip(cell.link))
         ELSE IF cell.v.k = "str" /\ StartsWith(Lower(Strip(cell.v.s)), <<"h", "t", "t", "p">>)
         THEN StrV(Strip(cell.v.s))
         ELSE NoneV

(***************************************************************************)
(* Text Normalizer: header keys, separators, title case                    *)
(***************************************************************************)
\* unicodedata.normalize("NFKD", c) without its combining marks
Unaccent(c) ==
    CASE c = "<e:>" -> "e"
      [] c = "<c,>" -> "c"
      [] c = "<E:>" -> "E"
      [] c = "<C,>" -> "C"
      [] OTHER -> c

\* [a-z0-9 ]
IsKeyChar(c) == c = " " \/ IsDigit(c) \/ \E i \in 1..26 : LowerCase[i] = c

\* re.sub(r"[^a-z0-9 ]+", " ", t)
RECURSIVE SubNonKey(_)
SubNonKey(t) ==
    IF t = <<>> THEN <<>>
    ELSE IF IsKeyChar(Head(t)) THEN <<Head(t)>> \o SubNonKey(Tail(t))
    ELSE IF Len(t) >= 2 /\ ~IsKeyChar(t[2]) THEN SubNonKey(Tail(t))
    ELSE <<" ">> \o SubNonKey(Tail(t))

\* the tail of both normalize_header functions: strip the diacritics,
\* blank what is not [a-z0-9 ], collapse the whitespace, strip
HeaderKey(lowered) ==
    Local(lowered, LAMBDA t :
        Strip(SubRuns(SubNonKey([i \in 1..Len(t) |-> Unaccent(t[i])]), Whitespace, <<" ">>)))

\* permits normalize_header, lines 145-153 (the masculine ordinal sign it
\* removes is outside the model's alphabet)
normalize_header(v) ==
    Local(clean_text(v), LAMBDA text :
        IF text.k = "none" THEN <<>> ELSE HeaderKey(Lower(text.s)))

\* accreditation normalize_header, lines 61-69
acc_normalize_header(v) ==
    IF v.k = "none" THEN <<>>
    ELSE HeaderKey(Replace(Lower(Strip(Str(v))), <<"\n">>, <<" ">>))

\* p in t
RECURSIVE Contains(_, _)
Contains(t, p) ==
    IF StartsWith(t, p) THEN TRUE
    ELSE IF t = <<>> THEN FALSE
    ELSE Contains(Tail(t), p)

\* re.sub(r"a\s*b", "-", t) for (a, b) = ("-", ",") and (",", "-")
RECURSIVE SubPair(_, _, _)
SubPair(t, a, b) ==
    IF t = <<>> THEN <<>>
    ELSE LET rest == LStripSet(Tail(t), Whitespace) IN
         IF Head(t) = a /\ rest # <<>> /\ Head(rest) = b
         THEN <<"-">> \o SubPair(Tail(rest), a, b)
         ELSE <<Head(t)>> \o SubPair(Tail(t), a, b)

\* re.sub(r"\s*c\s*", rep, t)
RECURSIVE SubAround(_, _, _)
SubAround(t, c, rep) ==
    IF t = <<>> THEN <<>>
    ELSE LET rest == LStripSet(t, Whitespace) IN
         IF rest # <<>> /\ Head(rest) = c
         THEN rep \o SubAround(LStripSet(Tail(rest), Whitespace), c, rep)
         ELSE <<Head(t)>> \o SubAround(Tail(t), c, rep)

\* \w
IsWordChar(c) ==
    \/ IsDigit(c)
    \/ c = "_"
    \/ \E i \in Letters : LowerCase[i] = c \/ UpperCase[i] = c

SMALL_WORDS ==
    {<<"e">>, <<"d", "h", "e">>, <<"m", "e">>, <<"n", "g", "a">>, <<"n", "e">>,
     <<"n", "<e:>">>, <<"t", "e">>, <<"t", "<e:>">>, <<"p", "e", "r">>,
     <<"p", "<e:>", "r">>, <<"p", "r", "e", "j">>, <<"s", "<e:>">>, <<"s", "e">>,
     <<"i">>}

\* the leading \w+ of t
RECURSIVE WordPrefix(_)
WordPrefix(t) ==
    IF t = <<>> \/ ~IsWordChar(Head(t)) THEN <<>>
    ELSE <<Head(t)>> \o WordPrefix(Tail(t))

\* repl, lines 179-183
TitleWord(word) ==
    IF word \in SMALL_WORDS THEN word
    ELSE <<UpperChar(Head(word))>> \o Tail(word)

\* WORD_BOUNDARY.sub(repl, lowered), line 185
RECURSIVE SubWords(_)
SubWords(t) ==
    IF t = <<>> THEN <<>>
    ELSE IF IsWordChar(Head(t))
         THEN Local(WordPrefix(t), LAMBDA word :
              Local(SubSeq(t, Len(word) + 1, Len(t)), LAMBDA rest :
                  TitleWord(word) \o SubWords(rest)))
    ELSE <<Head(t)>> \o SubWords(Tail(t))

\* smart_title_case, lines 176-188
smart_title_case(text) ==
    Local(SubWords(Lower(text)), LAMBDA titled :
        IF titled = <<>> THEN <<>> ELSE <<UpperChar(Head(titled))>> \o Tail(titled))

\* normalize_inline_separators(value, dash_separator=" - ", title_case=True),
\* lines 191-211, as normalize_destination and normalize_neighbourhood call it
normalize_inline_separators(v) ==
    Local(CleanT(v), LAMBDA t0 :
    LET t1 == Replace(Replace(t0, <<"<en-dash>">>, <<"-">>), <<"<em-dash>">>, <<"-">>)
        t2 == SubPair(t1, "-", ",")
        t3 == SubPair(t2, ",", "-")
        t4 == SubAround(t3, "-", <<" ", "-", " ">>)
        t5 == SubAround(t4, "/", <<" ", "/", " ">>)
        t6 == SubRuns(t5, Whitespace, <<" ">>)
    IN  IF t0 = <<>> THEN NoneV
        ELSE Local(StripSet(t6, {" ", ",", "-", "/"}), LAMBDA t7 :
                 IF t7 = <<>> THEN NoneV ELSE OptStr(smart_title_case(t7))))

\* normalize_destination, lines 214-215
normalize_destination(v) == normalize_inline_separators(v)

\* normalize_neighbourhood, lines 218-219
normalize_neighbourhood(v) == normalize_inline_separators(v)

\* the length of the match of ^(leja|leje)\s+[me\s+]nr\.?\s* at the start
\* of t, ignoring case; 0 when it does not match
PermitPrefixLen(t, with_me) ==
    Local(Lower(t), LAMBDA low :
    Local(IF StartsWith(low, <<"l", "e", "j", "a">>) \/ StartsWith(low, <<"l", "e", "j", "e">>)
          THEN 4 ELSE 0, LAMBDA w1 :
    Local(SubSeq(low, w1 + 1, Len(low)), LAMBDA a1 :
    Local(LStripSet(a1, Whitespace), LAMBDA a2 :
    Local(IF with_me THEN SubSeq(a2, 3, Len(a2)) ELSE a2, LAMBDA b1 :
    Local(IF with_me THEN LStripSet(b1, Whitespace) ELSE a2, LAMBDA b2 :
    Local(SubSeq(b2, 3, Len(b2)), LAMBDA c1 :
    Local(IF c1 # <<>> /\ Head(c1) = "." THEN Tail(c1) ELSE c1, LAMBDA c2 :
        IF /\ w1 = 4
           /\ Len(a2) < Len(a1)
           /\ (with_me => StartsWith(a2, <<"m", "e">>) /\ Len(b2) < Len(b1))
           /\ StartsWith(b2, <<"n", "r">>)
        THEN Len(low) - Len(LStripSet(c2, Whitespace))
        ELSE 0))))))))

\* the length of the match of ^leja dokumenti[:\s-]+ at the start of t
DocPrefixLen(t) ==
    LET p == <<"l", "e", "j", "a", " ", "d", "o", "k", "u", "m", "e", "n", "t", "i">> IN
    Local(SubSeq(t, Len(p) + 1, Len(t)), LAMBDA a1 :
    Local(LStripSet(a1, Whitespace \cup {":", "-"}), LAMBDA a2 :
        IF StartsWith(Lower(t), p) /\ Len(a2) < Len(a1) THEN Len(t) - Len(a2) ELSE 0))

\* normalize_document_reference, lines 222-230
normalize_document_reference(v) ==
    Local(CleanT(v), LAMBDA t0 :
    Local(SubSeq(t0, DocPrefixLen(t0) + 1, Len(t0)), LAMBDA t1 :
    Local(SubSeq(t1, PermitPrefixLen(t1, TRUE) + 1, Len(t1)), LAMBDA t2 :
    Local(SubSeq(t2, PermitPrefixLen(t2, FALSE) + 1, Len(t2)), LAMBDA t3 :
        OptStr(LStripSet(t3, {":", "-", " "}))))))

(***************************************************************************)
(* Header Resolver (permits)                                               *)
(***************************************************************************)
\* Optional[str] None for a field name
NoField == ""

HEADER_ALIASES ==
    {[key |-> <<"#">>, field |-> "permit_number"],
     [key |-> <<"d", "a", "t", "a", " ", "e", " ", "a", "p", "l", "i", "k", "i", "m", "i", "t",
             " ", "t", "e", " ", "l", "e", "j", "e", "s">>, field |-> "application_date"],
     [key |-> <<"d", "a", "t", "a", " ", "e", " ", "l", "e", "s", "h", "i", "m", "i", "t", " ",
             "t", "e", " ", "l", "e", "j", "e", "s">>, field |-> "issuance_date"],
     [key |-> <<"p", "r", "o", "n", "a", "r", "i", " ", "p", "r", "o", "n", "a", "r", "e", "t",
             " ", "p", "e", "r", "f", "a", "q", "e", "s", "u", "e", "s", "i">>, field |-> "owner"],
     [key |-> <<"k", "o", "m", "p", "a", "n", "i", "a", " ", "i", "n", "v", "e", "s", "t", "i",
             "t", "o", "r", "i">>, field |-> "investor"],
     [key |-> <<"p", "r", "o", "j", "e", "k", "t", "u", "e", "s", "i">>, field |-> "designer"],
     [key |-> <<"l", "a", "g", "j", "a">>, field |-> "neighbourhood"],
     [key |-> <<"l", "a", "g", "j", "i", "a">>, field |-> "neighbourhood"],
     [key |-> <<"l", "a", "g", "j", "i", "a", " ", "e">>, field |-> "neighbourhood"],
     [key |-> <<"s", "i", "p", "e", "r", "f", "a", "q", "j", "a", " ", "t", "o", "t", "a", "l",
             "e", " ", "n", "d", "e", "r", "t", "i", "m", "o", "r", "e">>,
             field |-> "total_floor_area_m2"],
     [key |-> <<"p", "a", "g", "e", "s", "a", " ", "t", "o", "t", "a", "l", "e", " ", "e", " ",
             "l", "e", "j", "e", "s", " ", "s", "e", " ", "l", "e", "s", "h", "u", "a", "r">>,
             field |-> "total_fee_eur"],
     [key |-> <<"e", "t", "a", "z", "h", "i", "t", "e", "t", "i">>, field |-> "storeys"],
     [key |-> <<"e", "t", "a", "z", "h", "i", "t", "e", "t", "i", " ", "i", " ", "o", "b", "j",
             "e", "k", "t", "i", "t">>, field |-> "storeys"],
     [key |-> <<"d", "e", "s", "t", "i", "n", "i", "m", "i", " ", "i", " ", "o", "b", "j", "e",
             "k", "t", "i", "t">>, field |-> "destination"],
     [key |-> <<"k", "o", "m", "e", "n", "t">>, field |-> "comment"],
     [key |-> <<"d", "o", "k", "u", "m", "e", "n", "t", "i", " ", "n", "e", " ", "p", "d", "f",
             " ", "i", " ", "l", "e", "j", "e", "s", " ", "s", "e", " ", "l", "e", "s", "h", "u",
             "a", "r">>, field |-> "document_reference"],
     [key |-> <<"s", "i", "t", "u", "a", "c", "i", "o", "n", "i", " ", "i", " ", "n", "d", "e",
             "r", "t", "i", "m", "i", "t">>, field |-> "situation_reference"],
     [key |-> <<"s", "i", "t", "u", "a", "c", "i", "o", "n", "i">>,
             field |-> "situation_reference"]}

TEXT_FIELDS ==
    {"permit_number", "owner", "investor", "designer", "neighbourhood", "storeys",
     "destination", "document_reference"}

NUMERIC_FIELDS ==
    {"total_floor_area_m2", "density_fee_eur", "administrative_fee_eur", "total_fee_eur"}

DATE_FIELDS == {"application_date", "issuance_date"}

FIELD_ORDER ==
    <<"permit_number", "application_date", "issuance_date", "owner", "investor",
      "designer", "neighbourhood", "total_floor_area_m2", "density_fee_eur",
      "administrative_fee_eur", "total_fee_eur", "storeys", "destination",
      "document_reference", "document_url", "situation_url">>

\* the text of a field name, as a column label carries it
FieldText ==
    [permit_number |-> <<"p", "e", "r", "m", "i", "t", "_", "n", "u", "m", "b", "e", "r">>,
     application_date |-> <<"a", "p", "p", "l", "i", "c", "a", "t", "i", "o", "n", "_", "d", "a",
             "t", "e">>,
     issuance_date |-> <<"i", "s", "s", "u", "a", "n", "c", "e", "_", "d", "a", "t", "e">>,
     owner |-> <<"o", "w", "n", "e", "r">>,
     investor |-> <<"i", "n", "v", "e", "s", "t", "o", "r">>,
     designer |-> <<"d", "e", "s", "i", "g", "n", "e", "r">>,
     neighbourhood |-> <<"n", "e", "i", "g", "h", "b", "o", "u", "r", "h", "o", "o", "d">>,
     total_floor_area_m2 |-> <<"t", "o", "t", "a", "l", "_", "f", "l", "o", "o", "r", "_", "a",
             "r", "e", "a", "_", "m", "2">>,
     density_fee_eur |-> <<"d", "e", "n", "s", "i", "t", "y", "_", "f", "e", "e", "_", "e", "u",
             "r">>,
     administrative_fee_eur |-> <<"a", "d", "m", "i", "n", "i", "s", "t", "r", "a", "t", "i", "v",
             "e", "_", "f", "e", "e", "_", "e", "u", "r">>,
     total_fee_eur |-> <<"t", "o", "t", "a", "l", "_", "f", "e", "e", "_", "e", "u", "r">>,
     storeys |-> <<"s", "t", "o", "r", "e", "y", "s">>,
     destination |-> <<"d", "e", "s", "t", "i", "n", "a", "t", "i", "o", "n">>,
     document_reference |-> <<"d", "o", "c", "u", "m", "e", "n", "t", "_", "r", "e", "f", "e", "r",
             "e", "n", "c", "e">>,
     document_url |-> <<"d", "o", "c", "u", "m", "e", "n", "t", "_", "u", "r", "l">>,
     situation_url |-> <<"s", "i", "t", "u", "a", "t", "i", "o", "n", "_", "u", "r", "l">>,
     comment |-> <<"c", "o", "m", "m", "e", "n", "t">>,
     situation_reference |-> <<"s", "i", "t", "u", "a", "t", "i", "o", "n", "_", "r", "e", "f",
             "e", "r", "e", "n", "c", "e">>,
     institution |-> <<"i", "n", "s", "t", "i", "t", "u", "t", "i", "o", "n">>,
     program_number |-> <<"p", "r", "o", "g", "r", "a", "m", "_", "n", "u", "m", "b", "e", "r">>,
     programme_sq |-> <<"p", "r", "o", "g", "r", "a", "m", "m", "e", "_", "s", "q">>,
     programme_en |-> <<"p", "r", "o", "g", "r", "a", "m", "m", "e", "_", "e", "n">>,
     campus |-> <<"c", "a", "m", "p", "u", "s">>,
     level |-> <<"l", "e", "v", "e", "l">>,
     ects |-> <<"e", "c", "t", "s">>,
     quota |-> <<"q", "u", "o", "t", "a">>,
     accredited_until |-> <<"a", "c", "c", "r", "e", "d", "i", "t", "e", "d", "_", "u", "n", "t",
             "i", "l">>]

\* header_to_field after its normalization, lines 304-312
FieldOfKey(normalized) ==
    IF normalized = <<>> THEN NoField
    ELSE IF StartsWith(normalized, <<"p", "a", "g", "e", "s", "a", " ", "e", " ", "t", "a", "r",
            "i", "f", "e", "s", " ", "p", "e", "r", " ", "r", "r", "i", "t", "j", "e", "n", " ",
            "e", " ", "d", "e", "n", "s", "i", "t", "e", "t", "i", "t">>)
    THEN "density_fee_eur"
    ELSE IF StartsWith(normalized, <<"p", "a", "g", "e", "s", "a", " ", "e", " ", "t", "a", "k",
            "s", "e", "s", " ", "a", "d", "m", "i", "n", "i", "s", "t", "r", "a", "t", "i", "v",
            "e">>)
    THEN "administrative_fee_eur"
    ELSE IF StartsWith(normalized, <<"s", "i", "p", "e", "r", "f", "a", "q", "j", "a", " ", "t",
            "o", "t", "a", "l", "e", " ", "n", "d", "e", "r", "t", "i", "m", "o", "r", "e">>)
    THEN "total_floor_area_m2"
    ELSE IF \E a \in HEADER_ALIASES : a.key = normalized
    THEN (CHOOSE a \in HEADER_ALIASES : a.key = normalized).field
    ELSE NoField

\* header_to_field, lines 302-312
header_to_field(header) == FieldOfKey(normalize_header(StrV(header)))

\* the marker test of find_header_row, lines 283-285
IsIssuanceHeader(row) ==
    \E i \in 1..Len(row) : StartsWith(normalize_header(row[i]), <<"d", "a", "t", "a", " ", "e",
            " ", "l", "e", "s", "h", "i", "m", "i", "t">>)

\* a faulty scan: the bottommost row that passes the marker test
ScanLastRow(grid, idx) ==
    Local({i \in idx..(Len(grid) - 1) : IsIssuanceHeader(grid[i + 1])}, LAMBDA passing :
        IF passing = {} THEN [r |-> "ValueError", idx |-> 0]
        ELSE [r |-> "ok", idx |-> CHOOSE i \in passing : \A j \in passing : j <= i])

\* the loop of find_header_row from row idx on: the index found, or the
\* ValueError of line 287
RECURSIVE ScanHeaderRow(_, _)
ScanHeaderRow(grid, idx) ==
    IF idx >= Len(grid) THEN [r |-> "ValueError", idx |-> 0]
    ELSE IF IsIssuanceHeader(grid[idx + 1]) THEN [r |-> "ok", idx |-> idx]
    ELSE ScanHeaderRow(grid, idx + 1)

\* a faulty find_header_row: the first row when no row passes the marker test
FirstRowAsHeader(grid) ==
    Local(ScanHeaderRow(grid, 0), LAMBDA found :
        IF found.r = "ok" THEN found ELSE [r |-> "ok", idx |-> 0])

\* find_header_row, lines 281-287; row indices are zero-based
find_header_row(grid) == ScanHeaderRow(grid, 0)

\* a cell as pandas reads it: an empty cell is NaN
PandasValue(cell) == IF cell.v.k = "none" THEN NaNV ELSE cell.v

\* pd.read_excel(path, sheet_name=0, header=None, dtype=object)
read_excel(p) ==
    LET sheet == p.sheets[1] IN
    [r \in 1..Len(sheet) |-> [c \in 1..Len(sheet[r]) |-> PandasValue(sheet[r][c])]]

\* pd.isna of a scalar
IsNa(v) == v.k \in {"none", "nan"}

\* the increasing sequence of the members of a set of numbers
SortedSeq(S) ==
    Local(S, LAMBDA T :
        [n \in 1..Cardinality(T) |->
            CHOOSE x \in T : Cardinality({y \in T : y < x}) = n - 1])

\* label, line 323
HeaderLabel(value) == IF value.k = "str" THEN CleanT(value) ELSE <<>>

\* load_dataframe, lines 315-336: [r, header_idx, columns, positions, data];
\* a row of data is [idx, cells], idx its pandas index
\* lines 318-325: the labels of the header row; the positions kept are the
\* first and those of a non-empty label
HeaderLabels(header_row) == [i \in 1..Len(header_row) |-> HeaderLabel(header_row[i])]

KeptPositions(labels) ==
    SortedSeq({i \in 0..(Len(labels) - 1) : i = 0 \/ labels[i + 1] # <<>>})

\* columns, lines 320-325
KeptColumns(labels, positions) ==
    [j \in 1..Len(positions) |->
        IF positions[j] = 0 THEN <<"#">> ELSE labels[positions[j] + 1]]

\* lines 327-335: the rows below the header, cut to the positions kept,
\* without the rows that are NaN in every column
DataRows(preview, header_idx, positions) ==
    Local([i \in (header_idx + 1)..(Len(preview) - 1) |->
              [j \in 1..Len(positions) |-> preview[i + 1][positions[j] + 1]]],
          LAMBDA table :
              Local(SortedSeq({i \in DOMAIN table :
                                  \E j \in 1..Len(positions) : ~IsNa(table[i][j])}),
                    LAMBDA kept :
                        [n \in 1..Len(kept) |-> [idx |-> kept[n], cells |-> table[kept[n]]]]))

load_dataframe(p) ==
    Local(read_excel(p), LAMBDA preview :
    Local(find_header_row(preview), LAMBDA found :
        IF found.r # "ok"
        THEN [r |-> found.r, header_idx |-> 0, columns |-> <<>>, positions |-> <<>>,
              data |-> <<>>]
        ELSE Local(HeaderLabels(preview[found.idx + 1]), LAMBDA labels :
             Local(KeptPositions(labels), LAMBDA positions :
                 [r |-> "ok", header_idx |-> found.idx,
                  columns |-> KeptColumns(labels, positions),
                  positions |-> positions,
                  data |-> DataRows(preview, found.idx, positions)]))))

(***************************************************************************)
(* Record Builder (permits)                                                *)
(***************************************************************************)
\* row.get(key): None without such a column, the cell of the one column of
\* that name, the Series of the cells of several columns of that name
RowGet(names, cells, key) ==
    LET hits == {i \in 1..Len(names) : names[i] = key} IN
    IF hits = {} THEN NoneV
    ELSE IF Cardinality(hits) = 1 THEN cells[CHOOSE i \in hits : TRUE]
    ELSE SeriesV

\* the coercion of one field, lines 360-374
CoerceField(field, value) ==
    IF field \in TEXT_FIELDS
    THEN (IF field = "destination" THEN normalize_destination(value)
          ELSE IF field = "neighbourhood" THEN normalize_neighbourhood(value)
          ELSE IF field = "document_reference" THEN normalize_document_reference(value)
          ELSE clean_text(value))
    ELSE IF field \in NUMERIC_FIELDS THEN parse_decimal(value)
    ELSE IF field \in DATE_FIELDS THEN parse_date(value)
    ELSE clean_text(value)

\* the keys build_record sets, lines 355-358
BuiltFields ==
    {FIELD_ORDER[i] : i \in 1..Len(FIELD_ORDER)} \ {"document_url", "situation_url"}

\* a faulty build_record: a key for each column of the row only
BuildPresentOnly(names, cells, comment_as_destination) ==
    [r |-> "ok",
     rec |-> [f \in {g \in BuiltFields : \E i \in 1..Len(names) : names[i] = FieldText[g]} |->
                 CoerceField(f, RowGet(names, cells, FieldText[f]))]]

\* a faulty build_record: the comment fills a blank destination whether or
\* not the workbook has a destination column
BuildAlwaysFallback(names, cells, comment_as_destination) ==
    Local(clean_text(RowGet(names, cells, FieldText["comment"])), LAMBDA comment_value :
    Local([f \in BuiltFields |-> CoerceField(f, RowGet(names, cells, FieldText[f]))],
          LAMBDA record :
        IF record["destination"].k = "none" /\ comment_value.k # "none"
        THEN [r |-> "ok",
              rec |-> [record EXCEPT !["destination"] = normalize_destination(comment_value)]]
        ELSE [r |-> "ok", rec |-> record]))

\* build_record, lines 352-379: [r, rec], r the exception of the first
\* coercion that raises, rec the dict
build_record(names, cells, comment_as_destination) ==
    Local(clean_text(RowGet(names, cells, FieldText["comment"])), LAMBDA comment_value :
    Local([f \in BuiltFields |-> CoerceField(f, RowGet(names, cells, FieldText[f]))],
          LAMBDA record :
    Local({i \in 1..Len(FIELD_ORDER) :
              FIELD_ORDER[i] \in BuiltFields /\ record[FIELD_ORDER[i]].k = "raise"},
          LAMBDA raising :
        IF raising # {}
        THEN [r |-> record[FIELD_ORDER[CHOOSE i \in raising : \A j \in raising : i <= j]].s[1],
              rec |-> record]
        ELSE IF /\ comment_as_destination
                /\ record["destination"].k = "none"
                /\ comment_value.k # "none"
        THEN Local(normalize_destination(comment_value), LAMBDA destination :
                 IF destination.k # "none"
                 THEN [r |-> "ok", rec |-> [record EXCEPT !["destination"] = destination]]
                 ELSE [r |-> "ok", rec |-> record])
        ELSE [r |-> "ok", rec |-> record])))

\* extract_year, lines 274-278: the first four digits in a row of the stem
RECURSIVE extract_year(_)
extract_year(stem) ==
    IF Len(stem) < 4 THEN [r |-> "ValueError", year |-> 0]
    ELSE IF AllDigits(SubSeq(stem, 1, 4))
    THEN [r |-> "ok", year |-> DigitsValue(SubSeq(stem, 1, 4))]
    ELSE extract_year(Tail(stem))

(***************************************************************************)
(* Workbook Parser (permits): the locals of parse_workbook, lines 384-402   *)
(***************************************************************************)
\* normalized, line 395, of every column
NormalizedColumns(columns) ==
    [i \in 1..Len(columns) |-> normalize_header(StrV(columns[i]))]

\* field, lines 389-392, of every column; keys are the normalized columns
\* (header_to_field normalizes the column as line 395 does)
ColumnFields(columns, keys) ==
    [i \in 1..Len(columns) |->
        IF columns[i] = <<"#">> THEN "permit_number" ELSE FieldOfKey(keys[i])]

\* column_map, lines 384-394: a later column of the same label overwrites
ColumnMap(columns, fields) ==
    LET mapped == {i \in 1..Len(columns) : fields[i] # NoField} IN
    [c \in {columns[i] : i \in mapped} |->
        fields[CHOOSE i \in mapped : columns[i] = c /\ \A j \in mapped : columns[j] = c => j <= i]]

\* pdf_col_excel, lines 396-397: the position of the first column whose
\* normalized label contains "pdf"
PdfColumn(keys, positions) ==
    LET hits == {i \in 1..Len(keys) : Contains(keys[i], <<"p", "d", "f">>)} IN
    IF hits = {} THEN NoCol ELSE positions[CHOOSE i \in hits : \A j \in hits : i <= j]

\* situation_col_excel, lines 398-399
SituationColumn(keys, positions) ==
    LET hits == {i \in 1..Len(keys) : StartsWith(keys[i], <<"s", "i", "t", "u", "a", "c", "i", "o",
            "n", "i">>)} IN
    IF hits = {} THEN NoCol ELSE positions[CHOOSE i \in hits : \A j \in hits : i <= j]

\* destination_present, line 401
DestinationPresent(column_map) ==
    \E c \in DOMAIN column_map : column_map[c] = "destination"

\* data.rename(columns=column_map), line 402: the column names
Renamed(columns, column_map) ==
    [i \in 1..Len(columns) |->
        IF columns[i] \in DOMAIN column_map THEN FieldText[column_map[columns[i]]]
        ELSE columns[i]]

(***************************************************************************)
(* Workbook Parser (permits): parse_workbook as a state machine            *)
(***************************************************************************)
\* dict[key] = value
SetItem(d, key, value) ==
    [x \in DOMAIN d \cup {key} |-> IF x = key THEN value ELSE d[x]]

Pending == [k |-> "pending", exc |-> "", value |-> <<>>]

Raised(exc) == [k |-> "raised", exc |-> exc, value |-> <<>>]

Returned(value) == [k |-> "returned", exc |-> "", value |-> <<value>>]

\* the state at the call of parse_workbook / parse_accredited_programmes
Entry ==
    /\ pc = "start"
    /\ frame = <<>>
    /\ cmap = <<>>
    /\ wb = "unopened"
    /\ cursor = 0
    /\ records = <<>>
    /\ origin = <<>>
    /\ ret = Pending

\* line 383: data, header_idx, columns, positions = load_dataframe(path)
LoadDataframe ==
    /\ pc = "start"
    /\ path.prog = "permits"
    /\ \E loaded \in {load_dataframe(path)} :
       IF loaded.r # "ok"
       THEN /\ pc' = "raised"
            /\ ret' = Raised(loaded.r)
            /\ UNCHANGED frame
       ELSE /\ pc' = "map_columns"
            /\ frame' = loaded
            /\ UNCHANGED ret
    /\ UNCHANGED <<path, cmap, wb, cursor, records, origin, hvars>>

\* lines 384-402: column_map, pdf_col_excel, situation_col_excel,
\* destination_present, renamed
MapColumns ==
    /\ pc = "map_columns"
    /\ \E keys \in {NormalizedColumns(frame.columns)} :
       \E column_map \in {ColumnMap(frame.columns, ColumnFields(frame.columns, keys))} :
           cmap' = [column_map |-> column_map,
                    pdf_col_excel |-> PdfColumn(keys, frame.positions),
                    situation_col_excel |-> SituationColumn(keys, frame.positions),
                    destination_present |-> DestinationPresent(column_map),
                    renamed |-> Renamed(frame.columns, column_map)]
    /\ pc' = "load_workbook"
    /\ UNCHANGED <<path, frame, wb, cursor, records, origin, ret, hvars>>

\* lines 403-405: wb = load_workbook(path ...); sheet = wb.active; records = []
LoadWorkbook ==
    /\ pc = "load_workbook"
    /\ wb' = "open"
    /\ cursor' = 1
    /\ pc' = "rows"
    /\ UNCHANGED <<path, frame, cmap, records, origin, ret, hvars>>

\* wb.active
ActiveSheet(p) == p.sheets[p.active]

\* a faulty append: the record goes to the front of the list
EmitFirst(record, idx) ==
    /\ records' = <<record>> \o records
    /\ origin' = <<idx>> \o origin

\* records.append(record), line 419 (line 179 of the accreditation script);
\* origin records the sheet row the record comes from
Emit(record, idx) ==
    /\ records' = Append(records, record)
    /\ origin' = Append(origin, idx)

\* a faulty test: only the rows blank in every column are skipped
IsSkippedBlankOnly(names, cells) == \A j \in 1..Len(cells) : IsNa(cells[j])

\* lines 408-412: the two tests that skip a row
IsSkipped(names, cells) ==
    \/ \A j \in 1..Len(cells) : IsNa(cells[j])
    \/ clean_text(RowGet(names, cells, FieldText["permit_number"])).k = "none"

\* one iteration of the loop of lines 407-419; an exception of build_record
\* leaves parse_workbook at once
Row ==
    /\ pc = "rows"
    /\ cursor <= Len(frame.data)
    /\ \E row \in {frame.data[cursor]} :
       IF IsSkipped(cmap.renamed, row.cells)
       THEN /\ cursor' = cursor + 1
            /\ UNCHANGED <<pc, records, origin, ret>>
       ELSE \E built \in {build_record(cmap.renamed, row.cells, ~cmap.destination_present)} :
            IF built.r # "ok"
            THEN /\ pc' = "raised"
                 /\ ret' = Raised(built.r)
                 /\ UNCHANGED <<cursor, records, origin>>
            ELSE LET excel_row_number == row.idx + 1
                     with_document == SetItem(built.rec, "document_url",
                         extract_hyperlink(ActiveSheet(path), cmap.pdf_col_excel,
                                           excel_row_number))
                     record == SetItem(with_document, "situation_url",
                         extract_hyperlink(ActiveSheet(path), cmap.situation_col_excel,
                                           excel_row_number))
                 IN  /\ Emit(record, row.idx)
                     /\ cursor' = cursor + 1
                     /\ UNCHANGED <<pc, ret>>
    /\ UNCHANGED <<path, frame, cmap, wb, hvars>>

\* line 421: wb.close()
CloseWorkbook ==
    /\ pc = "rows"
    /\ cursor > Len(frame.data)
    /\ wb' = "closed"
    /\ pc' = "extract_year"
    /\ UNCHANGED <<path, frame, cmap, cursor, records, origin, ret, hvars>>

\* lines 424-431: year = extract_year(path); return WorkbookParseResult(...)
ReturnResult ==
    /\ pc = "extract_year"
    /\ IF extract_year(path.stem).r # "ok"
       THEN /\ pc' = "raised"
            /\ ret' = Raised(extract_year(path.stem).r)
       ELSE /\ pc' = "returned"
            /\ ret' = Returned([year |-> extract_year(path.stem).year,
                                sheet_name |-> path.titles[path.active],
                                header_row |-> frame.header_idx + 1,
                                columns |-> frame.columns,
                                records |-> records])
    /\ UNCHANGED <<path, frame, cmap, wb, cursor, records, origin, hvars>>

(***************************************************************************)
(* Accreditation: header row, columns, rename                              *)
(***************************************************************************)
ACCREDITED_HEADER_MAP ==
    {[key |-> <<"i", "n", "s", "t", "i", "t", "u", "c", "i", "o", "n", "i", " ", "i", " ", "a",
            "r", "s", "i", "m", "i", "t", " ", "t", "e", " ", "l", "a", "r", "t", "e">>,
            field |-> "institution"],
     [key |-> <<"i", "n", "s", "t", "i", "t", "u", "c", "i", "o", "n", "i", " ", "i", " ", "a",
             "r", "s", "i", "m", "i", "t", " ", "t", "e", " ", "l", "a", "r", "t", "e", " ", "h",
             "i", "g", "h", "e", "r", " ", "e", "d", "u", "c", "a", "t", "i", "o", "n", " ", "i",
             "n", "s", "t", "i", "t", "u", "t", "i", "o", "n">>, field |-> "institution"],
     [key |-> <<"n", "r">>, field |-> "program_number"],
     [key |-> <<"p", "r", "o", "g", "r", "a", "m", "i", " ", "i", " ", "s", "t", "u", "d", "i",
             "m", "i", "t">>, field |-> "programme_sq"],
     [key |-> <<"p", "r", "o", "g", "a", "r", "m", "i", " ", "i", " ", "s", "t", "u", "d", "i",
             "m", "i", "t">>, field |-> "programme_sq"],
     [key |-> <<"p", "r", "o", "g", "r", "a", "m", "e", "t", " ", "e", " ", "s", "t", "u", "d",
             "i", "m", "i", "t">>, field |-> "programme_sq"],
     [key |-> <<"s", "t", "u", "d", "y", " ", "p", "r", "o", "g", "r", "a", "m">>,
             field |-> "programme_en"],
     [key |-> <<"k", "a", "m", "p", "u", "s", "i">>, field |-> "campus"],
     [key |-> <<"n", "i", "v", "e", "l", "i">>, field |-> "level"],
     [key |-> <<"e", "c", "t", "s">>, field |-> "ects"],
     [key |-> <<"k", "u", "o", "t", "a">>, field |-> "quota"],
     [key |-> <<"i", " ", "a", "k", "r", "e", "d", "i", "t", "u", "a", "r", " ", "d", "e", "r",
             "i", " ", "m", "e">>, field |-> "accredited_until"],
     [key |-> <<"i", " ", "a", "k", "r", "e", "d", "i", "t", "u", "a", "r", " ", "d", "e", "r",
             "i", " ", "m", "<e:>">>, field |-> "accredited_until"]}

ACCREDITED_FIELD_ORDER ==
    <<"institution", "program_number", "programme_sq", "programme_en", "campus", "level",
      "ects", "quota", "accredited_until">>

\* the marker test of load_accredited_dataframe, lines 133-134
IsInstitutionHeader(row) ==
    Local(acc_clean_text(row[1]), LAMBDA first_cell :
        first_cell.k = "str" /\ Contains(Lower(first_cell.s), <<"i", "n", "s", "t", "i", "t", "u",
                "c", "i", "o", "n", "i">>))

\* the loop of lines 132-136 from row idx on: the index found, or the
\* ValueError of line 138
RECURSIVE ScanInstitutionRow(_, _)
ScanInstitutionRow(grid, idx) ==
    IF idx >= Len(grid) THEN [r |-> "ValueError", idx |-> 0]
    ELSE IF IsInstitutionHeader(grid[idx + 1]) THEN [r |-> "ok", idx |-> idx]
    ELSE ScanInstitutionRow(grid, idx + 1)

\* the label pd.read_excel(header=...) gives column i before it looks for
\* repeats: the cell, or "Unnamed: i" for an empty cell
BaseLabel(value, i) == IF IsNa(value) THEN <<"U", "n", "n", "a", "m", "e", "d", ":",
        " ">> \o IntText(i) ELSE Str(value)

\* the labels of the columns: the n-th repeat of a label gets ".n" appended
ColumnLabels(header_row) ==
    Local([i \in 1..Len(header_row) |-> BaseLabel(header_row[i], i - 1)], LAMBDA base :
        [i \in 1..Len(base) |->
            Local(Cardinality({j \in 1..(i - 1) : base[j] = base[i]}), LAMBDA seen :
                IF seen = 0 THEN base[i] ELSE base[i] \o <<".">> \o IntText(seen))])

\* load_accredited_dataframe, lines 129-139: [r, header_idx, columns, data];
\* a row of data is [idx, cells], idx its index in the sheet
load_accredited_dataframe(p) ==
    Local(read_excel(p), LAMBDA preview :
    Local(ScanInstitutionRow(preview, 0), LAMBDA found :
        IF found.r # "ok"
        THEN [r |-> found.r, header_idx |-> 0, columns |-> <<>>, data |-> <<>>]
        ELSE [r |-> "ok", header_idx |-> found.idx,
              columns |-> ColumnLabels(preview[found.idx + 1]),
              data |-> [n \in 1..(Len(preview) - found.idx - 1) |->
                           [idx |-> found.idx + n, cells |-> preview[found.idx + n + 1]]]]))

\* target, lines 145-146, NoField for None
AccTarget(column) ==
    Local(acc_normalize_header(StrV(column)), LAMBDA normalized :
        IF \E a \in ACCREDITED_HEADER_MAP : a.key = normalized
        THEN (CHOOSE a \in ACCREDITED_HEADER_MAP : a.key = normalized).field
        ELSE NoField)

\* rename_map, lines 143-148
RenameMap(columns) ==
    Local([i \in 1..Len(columns) |-> AccTarget(columns[i])], LAMBDA target :
        [c \in {columns[i] : i \in {j \in 1..Len(columns) : target[j] # NoField}} |->
            target[CHOOSE i \in 1..Len(columns) : columns[i] = c]])

\* a faulty test: the check of line 151 left out
InstitutionAssumed(rename_map) == TRUE

\* "institution" in rename_map.values(), line 151
InstitutionMapped(rename_map) ==
    \E c \in DOMAIN rename_map : rename_map[c] = "institution"

\* missing_fields, line 155
missing_fields(names) ==
    SelectSeq(ACCREDITED_FIELD_ORDER,
              LAMBDA field : \A j \in 1..Len(names) : names[j] # FieldText[field])

(***************************************************************************)
(* Accreditation: selection, forward fill, dropna                          *)
(***************************************************************************)
\* the positions of the columns called name, left to right
NamedPositions(names, name) == SortedSeq({i \in 1..Len(names) : names[i] = name})

\* df[fields]: the positions selected, every column of a name that repeats
RECURSIVE SelectPositions(_, _)
SelectPositions(names, fields) ==
    IF fields = <<>> THEN <<>>
    ELSE NamedPositions(names, FieldText[Head(fields)])
         \o SelectPositions(names, Tail(fields))

\* df[ACCREDITED_FIELD_ORDER], line 159, of the rows
SelectRows(rows, positions) ==
    [n \in 1..Len(rows) |->
        [idx |-> rows[n].idx,
         cells |-> [j \in 1..Len(positions) |-> rows[n].cells[positions[j]]]]]

\* Series.ffill of column j: the cell of row n, or the last cell above it
\* that is not NaN
FilledCell(rows, n, j) ==
    Local({m \in 1..n : ~IsNa(rows[m].cells[j])}, LAMBDA valid :
        IF valid = {} THEN rows[n].cells[j]
        ELSE rows[CHOOSE m \in valid : \A k \in valid : k <= m].cells[j])

\* df["institution"] = df["institution"].ffill(), line 160
FillInstitution(names, rows) ==
    [n \in 1..Len(rows) |->
        [idx |-> rows[n].idx,
         cells |-> [j \in 1..Len(names) |->
                       IF names[j] = FieldText["institution"] THEN FilledCell(rows, n, j)
                       ELSE rows[n].cells[j]]]]

\* df.dropna(subset=["programme_sq", "programme_en"], how="all"), line 161
DropWithoutProgramme(names, rows) ==
    SelectSeq(rows, LAMBDA row :
        \E j \in 1..Len(names) :
            /\ names[j] \in {FieldText["programme_sq"], FieldText["programme_en"]}
            /\ ~IsNa(row.cells[j]))

\* df.dropna(subset=["institution"]), line 162
DropWithoutInstitution(names, rows) ==
    SelectSeq(rows, LAMBDA row :
        \A j \in 1..Len(names) :
            names[j] = FieldText["institution"] => ~IsNa(row.cells[j]))

\* row.<field> of itertuples: the first column of that name
TupleGet(names, cells, key) ==
    cells[CHOOSE i \in 1..Len(names) :
              names[i] = key /\ \A j \in 1..(i - 1) : names[j] # key]

\* record, lines 166-176
AccRecord(names, cells) ==
    [institution |-> acc_clean_text(TupleGet(names, cells, FieldText["institution"])),
     program_number |-> to_int(TupleGet(names, cells, FieldText["program_number"])),
     programme_sq |-> acc_clean_text(TupleGet(names, cells, FieldText["programme_sq"])),
     programme_en |-> acc_clean_text(TupleGet(names, cells, FieldText["programme_en"])),
     campus |-> acc_clean_text(TupleGet(names, cells, FieldText["campus"])),
     level |-> acc_clean_text(TupleGet(names, cells, FieldText["level"])),
     ects |-> to_int(TupleGet(names, cells, FieldText["ects"])),
     quota |-> to_int(TupleGet(names, cells, FieldText["quota"])),
     accredited_until |-> format_date(TupleGet(names, cells, FieldText["accredited_until"]))]

\* line 177: not record["programme_sq"] and not record["programme_en"]
WithoutProgramme(record) ==
    record.programme_sq.k = "none" /\ record.programme_en.k = "none"

(***************************************************************************)
(* Accreditation: parse_accredited_programmes as a state machine           *)
(***************************************************************************)
\* line 143: df = load_accredited_dataframe(path)
AccLoad ==
    /\ pc = "start"
    /\ path.prog = "accreditation"
    /\ \E loaded \in {load_accredited_dataframe(path)} :
       IF loaded.r # "ok"
       THEN /\ pc' = "raised"
            /\ ret' = Raised(loaded.r)
            /\ UNCHANGED frame
       ELSE /\ pc' = "rename"
            /\ frame' = loaded
            /\ UNCHANGED ret
    /\ UNCHANGED <<path, cmap, wb, cursor, records, origin, hvars>>

\* lines 144-157: rename_map, the two checks, df.rename
AccRename ==
    /\ pc = "rename"
    /\ \E rename_map \in {RenameMap(frame.columns)} :
       \E renamed \in {Renamed(frame.columns, rename_map)} :
       IF ~InstitutionMapped(rename_map) \/ missing_fields(renamed) # <<>>
       THEN /\ pc' = "raised"
            /\ ret' = Raised("ValueError")
            /\ UNCHANGED <<frame, cmap>>
       ELSE /\ pc' = "select"
            /\ cmap' = [rename_map |-> rename_map]
            /\ frame' = [frame EXCEPT !.columns = renamed]
            /\ UNCHANGED ret
    /\ UNCHANGED <<path, wb, cursor, records, origin, hvars>>

\* a faulty order: the rows without a programme are dropped before the fill
AccSelectDropFirst ==
    /\ pc = "select"
    /\ \E positions \in {SelectPositions(frame.columns, ACCREDITED_FIELD_ORDER)} :
       \E names \in {[j \in 1..Len(positions) |-> frame.columns[positions[j]]]} :
       \E dropped \in {DropWithoutProgramme(names, SelectRows(frame.data, positions))} :
           frame' = [frame EXCEPT
                        !.columns = names,
                        !.data = DropWithoutInstitution(names, FillInstitution(names, dropped))]
    /\ cursor' = 1
    /\ pc' = "tuples"
    /\ UNCHANGED <<path, cmap, wb, records, origin, ret, hvars>>

\* lines 159-164: the selection, the forward fill, the two dropna
AccSelect ==
    /\ pc = "select"
    /\ \E positions \in {SelectPositions(frame.columns, ACCREDITED_FIELD_ORDER)} :
       \E names \in {[j \in 1..Len(positions) |-> frame.columns[positions[j]]]} :
       \E filled \in {FillInstitution(names, SelectRows(frame.data, positions))} :
           frame' = [frame EXCEPT
                        !.columns = names,
                        !.data = DropWithoutInstitution(names,
                                     DropWithoutProgramme(names, filled))]
    /\ cursor' = 1
    /\ pc' = "tuples"
    /\ UNCHANGED <<path, cmap, wb, records, origin, ret, hvars>>

\* one iteration of the loop of lines 165-179
AccRow ==
    /\ pc = "tuples"
    /\ cursor <= Len(frame.data)
    /\ \E row \in {frame.data[cursor]} :
       \E record \in {AccRecord(frame.columns, row.cells)} :
       IF WithoutProgramme(record)
       THEN UNCHANGED <<records, origin>>
       ELSE Emit(record, row.idx)
    /\ cursor' = cursor + 1
    /\ UNCHANGED <<path, pc, frame, cmap, wb, ret, hvars>>

\* line 181: return records
AccReturn ==
    /\ pc = "tuples"
    /\ cursor > Len(frame.data)
    /\ pc' = "returned"
    /\ ret' = Returned(records)
    /\ UNCHANGED <<path, frame, cmap, wb, cursor, records, origin, hvars>>

(***************************************************************************)
(* Workbooks of the model (permits)                                        *)
(***************************************************************************)
Txt(t) == Cell(StrV(t), <<>>)

Num(i) == Cell(IntV(i), <<>>)

\* header rows: five columns each
PermitHeaders ==
    {\* a destination column, a comment column, a PDF column
     <<Txt(<<"N", "r">>), Txt(<<"D", "a", "t", "a", " ", "e", " ", "l", "<e:>", "s", "h", "i", "m",
             "i", "t", " ", "t", "<e:>", " ", "l", "e", "j", "e", "s">>), Txt(<<"D", "e", "s", "t",
             "i", "n", "i", "m", "i", " ", "i", " ", "o", "b", "j", "e", "k", "t", "i", "t">>),
       Txt(<<"K", "o", "m", "e", "n", "t">>), Txt(<<"D", "o", "k", "u", "m", "e", "n", "t", "i",
               " ", "n", "<e:>", " ", "P", "D", "F", " ", "i", " ", "l", "e", "j", "e", "s", " ",
               "s", "<e:>", " ", "l", "<e:>", "s", "h", "u", "a", "r">>)>>,
     \* no destination column, a column without a label, a situation column
     <<Txt(<<"#">>), EmptyCell, Txt(<<"D", "A", "T", "A", " ", "E", " ", "L", "E", "S", "H", "I",
             "M", "I", "T">>), Txt(<<"K", "o", "m", "e", "n", "t">>), Txt(<<"S", "i", "t", "u",
             "a", "c", "i", "o", "n", "i">>)>>,
     \* two columns that resolve to application_date
     <<Txt(<<"#">>), Txt(<<"D", "a", "t", "a", " ", "e", " ", "l", "e", "s", "h", "i", "m", "i",
             "t">>), Txt(<<"D", "a", "t", "a", " ", "e", " ", "a", "p", "l", "i", "k", "i", "m",
             "i", "t", " ", "t", "e", " ", "l", "e", "j", "e", "s">>),
       Txt(<<"K", "o", "m", "e", "n", "t">>), Txt(<<"D", "A", "T", "A", " ", "E", " ", "A", "P",
               "L", "I", "K", "I", "M", "I", "T", " ", "T", "E", " ", "L", "E", "J", "E", "S">>)>>,
     \* two columns that resolve to neighbourhood
     <<Txt(<<"#">>), Txt(<<"D", "a", "t", "a", " ", "e", " ", "l", "e", "s", "h", "i", "m", "i",
             "t">>), Txt(<<"L", "a", "g", "j", "a">>), Txt(<<"K", "o", "m", "e", "n", "t">>),
             Txt(<<"L", "a", "g", "j", "i", "a">>)>>}

\* rows above the header
TitleRow == <<Txt(<<"L", "i", "s", "t", "a", " ", "e", " ", "l", "e", "j", "e", "v", "e">>),
        EmptyCell, EmptyCell, EmptyCell, EmptyCell>>

\* rows below the header
PermitRows ==
    {<<Num(12), Cell(DateV(20240305), <<>>), Txt(<<"b", "a", "n", "e", "s", "a", " ", "<em-dash>",
            " ", "a", "f", "a", "r", "i", "s", "t", "e">>),
       Txt(<<"s", "h", "t", "e", "p", "i", " ", "b", "a", "n", "i", "m", "i">>), Cell(StrV(<<"L",
               "e", "j", "a", " ", "n", "r", ".", " ", "5">>), <<"h", "t", "t", "p", ":", "a">>)>>,
     \* a blank row
     <<EmptyCell, EmptyCell, EmptyCell, EmptyCell, EmptyCell>>,
     \* no permit number
     <<EmptyCell, Cell(DateV(20240306), <<>>), Txt(<<"z", "y", "r", "e">>), Txt(<<"x">>),
             EmptyCell>>,
     \* a permit number of whitespace
     <<Txt(<<" ">>), EmptyCell, EmptyCell, Txt(<<"-">>), Txt(<<"y">>)>>,
     \* no destination, a comment that normalizes to nothing
     <<Num(7), Txt(<<"0", "5", "/", "0", "3", "/", "2", "0", "2", "4">>), EmptyCell, Txt(<<"-">>),
             Txt(<<"H", "T", "T", "P", ":", "b">>)>>,
     \* no destination, a comment
     <<Txt(<<"3">>), EmptyCell, EmptyCell, Txt(<<"z", "y", "r", "e">>), EmptyCell>>,
     \* a repeated header line
     <<Txt(<<"N", "r">>), Txt(<<"D", "a", "t", "a", " ", "e", " ", "l", "e", "s", "h", "i", "m",
             "i", "t">>), EmptyCell, EmptyCell, EmptyCell>>}

\* a second sheet of the workbook
NotesSheet ==
    <<  <<Txt(<<"S", "h", "e", "n", "i", "m", "e">>), EmptyCell, EmptyCell, EmptyCell,
            Cell(StrV(<<"a">>), <<"h", "t", "t", "p", ":", "n", "1">>)>>,
        <<Txt(<<"b">>), EmptyCell, EmptyCell, EmptyCell, Cell(StrV(<<"c">>), <<"h", "t", "t", "p",
                ":", "n", "2">>)>>,
        <<Txt(<<"d">>), EmptyCell, EmptyCell, EmptyCell, Cell(StrV(<<"e">>), <<"h", "t", "t", "p",
                ":", "n", "3">>)>>  >>

MaxRows == 2

SeqsUpTo(S, n) == UNION {[1..m -> S] : m \in 0..n}

\* the first sheet: rows above the header, the header (or none), data rows
PermitSheets ==
    {top \o head \o rows :
        top \in {<<>>, <<TitleRow>>},
        head \in {<<>>} \cup {<<h>> : h \in PermitHeaders},
        rows \in SeqsUpTo(PermitRows, MaxRows)}

\* the stem of the file name: with a year, and (for the workbooks of at most
\* three rows) without one
PermitStems(sheet) ==
    {<<"b", "u", "i", "l", "d", "i", "n", "g", "-", "p", "e", "r", "m", "i", "t", "s", "-", "2",
       "0", "2", "4">>}
        \cup (IF Len(sheet) <= 3 THEN {<<"p", "e", "r", "m", "i", "t", "s">>} ELSE {})

\* the sheets of the workbook and the one that is active: the first sheet
\* alone, and (for the workbooks of at most three rows) a second sheet
\* behind it, either of the two active
PermitBooks(sheet) ==
    {[sheets |-> <<sheet>>, active |-> 1]}
        \cup (IF Len(sheet) <= 3
              THEN {[sheets |-> <<sheet, NotesSheet>>, active |-> a] : a \in 1..2}
              ELSE {})

PermitPaths ==
    UNION {{[prog |-> "permits", stem |-> stem, sheets |-> book.sheets,
             titles |-> <<"Lejet", "Shenime">>, active |-> book.active] :
                stem \in PermitStems(sheet), book \in PermitBooks(sheet)} :
           sheet \in PermitSheets \ {<<>>}}

InitPermits ==
    /\ path \in PermitPaths
    /\ Entry
    /\ fn = "none" /\ arg = NoneV /\ out = NoneV /\ out2 = NoneV /\ hpc = "idle"

NextPermits ==
    \/ LoadDataframe
    \/ MapColumns
    \/ LoadWorkbook
    \/ Row
    \/ CloseWorkbook
    \/ ReturnResult

(***************************************************************************)
(* Workbooks of the model (accreditation)                                  *)
(***************************************************************************)
\* header rows: ten columns each
AccHeaders ==
    {\* every field has its column
     <<Txt(<<"I", "n", "s", "t", "i", "t", "u", "c", "i", "o", "n", "i", " ", "i", " ", "A", "r",
             "s", "i", "m", "i", "t", " ", "t", "<e:>", " ", "L", "a", "r", "t", "<e:>">>),
             Txt(<<"N", "r", ".">>), Txt(<<"P", "r", "o", "g", "r", "a", "m", "i", " ", "i", " ",
             "s", "t", "u", "d", "i", "m", "i", "t">>),
       Txt(<<"S", "t", "u", "d", "y", " ", "p", "r", "o", "g", "r", "a", "m">>), Txt(<<"K", "a",
               "m", "p", "u", "s", "i">>), Txt(<<"N", "i", "v", "e", "l", "i">>), Txt(<<"E", "C",
               "T", "S">>), Txt(<<"K", "u", "o", "t", "a">>),
       Txt(<<"I", " ", "a", "k", "r", "e", "d", "i", "t", "u", "a", "r", " ", "d", "e", "r", "i",
               " ", "m", "<e:>">>), Txt(<<"S", "h", "<e:>", "n", "i", "m", "e">>)>>,
     \* no label resolves to institution; a column is called institution
     <<Txt(<<"I", "n", "s", "t", "i", "t", "u", "c", "i", "o", "n", "i">>), Txt(<<"N", "r">>),
             Txt(<<"P", "r", "o", "g", "r", "a", "m", "i", " ", "i", " ", "s", "t", "u", "d", "i",
             "m", "i", "t">>),
       Txt(<<"S", "t", "u", "d", "y", " ", "p", "r", "o", "g", "r", "a", "m">>), Txt(<<"K", "a",
               "m", "p", "u", "s", "i">>), Txt(<<"N", "i", "v", "e", "l", "i">>), Txt(<<"E", "C",
               "T", "S">>), Txt(<<"K", "u", "o", "t", "a">>),
       Txt(<<"I", " ", "a", "k", "r", "e", "d", "i", "t", "u", "a", "r", " ", "d", "e", "r", "i",
               " ", "m", "e">>), Txt(<<"i", "n", "s", "t", "i", "t", "u", "t", "i", "o", "n">>)>>,
     \* no quota column
     <<Txt(<<"I", "N", "S", "T", "I", "T", "U", "C", "I", "O", "N", "I", " ", "I", " ", "A", "R",
             "S", "I", "M", "I", "T", " ", "T", "<E:>", " ", "L", "A", "R", "T", "<E:>">>),
             Txt(<<"N", "r">>), Txt(<<"P", "r", "o", "g", "r", "a", "m", "e", "t", " ", "e", " ",
             "s", "t", "u", "d", "i", "m", "i", "t">>),
       Txt(<<"S", "t", "u", "d", "y", " ", "p", "r", "o", "g", "r", "a", "m">>), Txt(<<"K", "a",
               "m", "p", "u", "s", "i">>), Txt(<<"N", "i", "v", "e", "l", "i">>), Txt(<<"E", "C",
               "T", "S">>), EmptyCell,
       Txt(<<"I", " ", "a", "k", "r", "e", "d", "i", "t", "u", "a", "r", " ", "d", "e", "r", "i",
               " ", "m", "e">>), EmptyCell>>,
     \* two columns that resolve to programme_sq
     <<Txt(<<"I", "n", "s", "t", "i", "t", "u", "c", "i", "o", "n", "i", " ", "i", " ", "a", "r",
             "s", "i", "m", "i", "t", " ", "t", "e", " ", "l", "a", "r", "t", "e">>), Txt(<<"N",
             "r">>), Txt(<<"P", "r", "o", "g", "r", "a", "m", "i", " ", "i", " ", "s", "t", "u",
             "d", "i", "m", "i", "t">>),
       Txt(<<"S", "t", "u", "d", "y", " ", "p", "r", "o", "g", "r", "a", "m">>), Txt(<<"K", "a",
               "m", "p", "u", "s", "i">>), Txt(<<"N", "i", "v", "e", "l", "i">>), Txt(<<"E", "C",
               "T", "S">>), Txt(<<"K", "u", "o", "t", "a">>),
       Txt(<<"I", " ", "a", "k", "r", "e", "d", "i", "t", "u", "a", "r", " ", "d", "e", "r", "i",
               " ", "m", "e">>), Txt(<<"P", "r", "o", "g", "a", "r", "m", "i", " ", "i", " ", "s",
               "t", "u", "d", "i", "m", "i", "t">>)>>}

\* a row above the header
AccTitleRow ==
    <<Txt(<<"P", "r", "o", "g", "r", "a", "m", "e", "t", " ", "e", " ", "a", "k", "r", "e", "d",
            "i", "t", "u", "a", "r", "a">>), EmptyCell, EmptyCell, EmptyCell, EmptyCell, EmptyCell,
      EmptyCell, EmptyCell, EmptyCell, EmptyCell>>

\* rows below the header
AccRows ==
    {<<Txt(<<"U", "P">>), Num(1), Txt(<<"F", "i", "z", "i", "k", "<e:>">>), Txt(<<"P", "h", "y",
            "s", "i", "c", "s">>), Txt(<<"P", "r", "i", "s", "h", "t", "i", "n", "<e:>">>),
            Txt(<<"B", "A">>),
       Num(180), Num(50), Cell(DateV(20260930), <<>>), EmptyCell>>,
     \* the institution cell left empty under a merged cell
     <<EmptyCell, Num(2), Txt(<<"K", "i", "m", "i">>), EmptyCell, EmptyCell, Txt(<<"B", "A">>),
             Txt(<<"1", "8", "0">>),
       EmptyCell, Txt(<<"2", "0", "2", "6", "-", "0", "9", "-", "3", "0">>), Txt(<<"K", "i", "m",
               "i", "a">>)>>,
     \* a blank row
     <<EmptyCell, EmptyCell, EmptyCell, EmptyCell, EmptyCell, EmptyCell, EmptyCell, EmptyCell,
       EmptyCell, EmptyCell>>,
     \* an institution without a programme
     <<Txt(<<"U", "B", "T">>), EmptyCell, EmptyCell, EmptyCell, EmptyCell, EmptyCell, EmptyCell,
       EmptyCell, EmptyCell, EmptyCell>>,
     \* programme names of whitespace
     <<Txt(<<"U", "P">>), Num(3), Txt(<<" ">>), EmptyCell, EmptyCell, EmptyCell, EmptyCell,
             EmptyCell,
       EmptyCell, EmptyCell>>,
     \* an institution of whitespace
     <<Txt(<<" ">>), Num(4), Txt(<<"A", "r", "t">>), Txt(<<"A", "r", "t", "s">>), EmptyCell,
             Txt(<<"M", "A">>), Num(120),
       EmptyCell, EmptyCell, EmptyCell>>,
     \* an institution whose name holds the marker
     <<Txt(<<"I", "n", "s", "t", "i", "t", "u", "c", "i", "o", "n", "i", " ", "X">>), Num(5),
             Txt(<<"M", "u", "z", "i", "k", "<e:>">>), Txt(<<"M", "u", "s", "i", "c">>), Txt(<<"P",
             "e", "j", "<e:>">>),
       Txt(<<"M", "A">>), Num(121), Num(30), EmptyCell, EmptyCell>>}

\* a last row of a block under a merged institution cell: no institution
MergedRow ==
    <<EmptyCell, Num(6), Txt(<<"B", "i", "o">>), Txt(<<"B", "i", "o", "l", "o", "g", "y">>),
      EmptyCell, Txt(<<"B", "A">>), Num(180), EmptyCell, EmptyCell, EmptyCell>>

\* what follows the data rows drawn: nothing, or (under at most two of
\* them) the last row of a merged block
AccLast(rows) == {<<>>} \cup (IF Len(rows) <= 2 THEN {<<MergedRow>>} ELSE {})

\* the first sheet: rows above the header, the header (or none), data rows
AccSheets ==
    UNION {{top \o head \o rows \o last :
               top \in {<<>>, <<AccTitleRow>>},
               head \in {<<>>} \cup {<<h>> : h \in AccHeaders},
               last \in AccLast(rows)} :
           rows \in SeqsUpTo(AccRows, MaxRows)}

AccPaths ==
    {[prog |-> "accreditation", stem |-> <<"p", "r", "o", "g", "r", "a", "m", "e", "t", "-", "2",
            "0", "2", "3">>, sheets |-> <<s>>,
      titles |-> <<"Programet">>, active |-> 1] : s \in AccSheets \ {<<>>}}

InitAccreditation ==
    /\ path \in AccPaths
    /\ Entry
    /\ fn = "none" /\ arg = NoneV /\ out = NoneV /\ out2 = NoneV /\ hpc = "idle"

NextAccreditation ==
    \/ AccLoad
    \/ AccRename
    \/ AccSelect
    \/ AccRow
    \/ AccReturn

Init == InitPermits \/ InitAccreditation

Next == NextPermits \/ NextAccreditation

Spec == Init /\ [][Next]_vars

(***************************************************************************)
(* Harness for the pure functions: draw an input, apply, apply again       *)
(***************************************************************************)
\* no file is being parsed
NoParse ==
    /\ path = <<>>
    /\ pc = "idle"
    /\ frame = <<>>
    /\ cmap = <<>>
    /\ wb = "unopened"
    /\ cursor = 0
    /\ records = <<>>
    /\ origin = <<>>
    /\ ret = Pending

MaxLen == 5

CleanAlphabet == {"a", ",", " ", "'", "\"", "\n"}

Texts(A, n) == UNION {[1..m -> A] : m \in 0..n}

CleanFns == {"permits.clean_text", "accreditation.clean_text"}

ApplyClean(f, v) ==
    IF f = "permits.clean_text" THEN clean_text(v) ELSE acc_clean_text(v)

InitClean ==
    /\ fn \in CleanFns
    /\ arg \in {NoneV, NaNV} \cup {StrV(t) : t \in Texts(CleanAlphabet, MaxLen)}
    /\ out = NoneV
    /\ out2 = NoneV
    /\ hpc = "ready"
    /\ NoParse

\* y = clean_text(x)
CleanOnce ==
    /\ hpc = "ready"
    /\ out' = ApplyClean(fn, arg)
    /\ hpc' = "once"
    /\ UNCHANGED <<fn, arg, out2, pvars>>

\* z = clean_text(y)
CleanTwice ==
    /\ hpc = "once"
    /\ out2' = ApplyClean(fn, out)
    /\ hpc' = "twice"
    /\ UNCHANGED <<fn, arg, out, pvars>>

NextClean == CleanOnce \/ CleanTwice

SpecClean == InitClean /\ [][NextClean]_vars

CoerceFns == {"to_int", "to_float", "format_date", "parse_decimal", "parse_date"}

ApplyCoerce(f, v) ==
    CASE f = "to_int" -> to_int(v)
      [] f = "to_float" -> to_float(v)
      [] f = "format_date" -> format_date(v)
      [] f = "parse_decimal" -> parse_decimal(v)
      [] f = "parse_date" -> parse_date(v)
      [] f = "extract_hyperlink" -> extract_hyperlink(v.sheet, v.col, v.row)

\* raw cell values: the empty string, None, NaN, texts, numbers of each
\* type, a datetime, and the multi-valued cell of duplicate column names
CoerceInputs ==
    {NoneV, NaNV, InfV, BigIntV, SeriesV, IntV(0), IntV(7), DateV(20240305),
     FloatV(12345, <<"1", "2", ".", "3", "4", "5">>),
     FloatV(2500, <<"2", ".", "5">>),
     StrV(<<>>), StrV(<<" ", " ">>), StrV(<<"a", "b", "c">>), StrV(<<"1", "2">>),
     StrV(<<"1", ".", "2", "3", "4", ",", "5", "0">>),
     StrV(<<"1", "2", " ", "E", "U", "R">>), StrV(<<"<euro>", "3", ",", "5">>),
     StrV(<<"0", "5", "/", "0", "3", "/", "2", "0", "2", "4">>),
     StrV(<<"2", "5", "/", "1", "2", "/", "2", "0", "2", "4">>),
     StrV(<<"2", "0", "2", "4", "-", "0", "3", "-", "0", "5">>)}

\* a sheet with a linked cell, cells whose text is a URL, and plain cells
LinkSheet ==
    <<  <<Cell(StrV(<<"P", "D", "F">>), <<" ", "h", "t", "t", "p", ":", "a", " ">>),
          Cell(StrV(<<"H", "T", "T", "P", ":", "b", " ">>), <<>>),
          Cell(StrV(<<"l", "e", "j", "a">>), <<>>)>>,
        <<Cell(IntV(7), <<>>),
          EmptyCell,
          Cell(StrV(<<"h", "t", "t", "p", "s", ":", "c">>), <<>>)>>  >>

MaxLinkCol == 3

LinkInputs ==
    {[sheet |-> LinkSheet, col |-> c, row |-> r] :
        c \in {NoCol} \cup 0..MaxLinkCol, r \in 1..(Len(LinkSheet) + 1)}

InitCoerce ==
    /\ \/ fn \in CoerceFns /\ arg \in CoerceInputs
       \/ fn = "extract_hyperlink" /\ arg \in LinkInputs
    /\ out = NoneV
    /\ out2 = NoneV
    /\ hpc = "ready"
    /\ NoParse

\* result = f(value)
Coerce ==
    /\ hpc = "ready"
    /\ out' = ApplyCoerce(fn, arg)
    /\ hpc' = "once"
    /\ UNCHANGED <<fn, arg, out2, pvars>>

NextCoerce == Coerce

SpecCoerce == InitCoerce /\ [][NextCoerce]_vars

(***************************************************************************)
(* Claims                                                                  *)
(***************************************************************************)
\* the first sheet as pandas reads it
Grid == read_excel(path)

\* row i (zero-based) of the sheet passes the marker test of the pipeline
PassesMarker(i) ==
    IF path.prog = "permits" THEN IsIssuanceHeader(Grid[i + 1])
    ELSE IsInstitutionHeader(Grid[i + 1])

\* no row of the sheet passes the marker test
NoHeaderRow == \A i \in 0..(Len(Grid) - 1) : ~PassesMarker(i)

\* load_dataframe / load_accredited_dataframe has returned a frame
Loaded == pc # "start" /\ DOMAIN frame # {}

\* the rows of the frame that the row loop does not skip
Retained ==
    IF path.prog = "permits"
    THEN SelectSeq(frame.data, LAMBDA row : ~IsSkipped(cmap.renamed, row.cells))
    ELSE SelectSeq(frame.data, LAMBDA row : ~WithoutProgramme(AccRecord(frame.columns, row.cells)))

\* record n is what the pipeline builds from the row of the frame with index origin[n]
BuiltFromOrigin(n) ==
    \E m \in 1..Len(frame.data) :
        /\ frame.data[m].idx = origin[n]
        /\ IF path.prog = "permits"
           THEN Local(build_record(cmap.renamed, frame.data[m].cells,
                                   ~cmap.destination_present).rec,
                      LAMBDA built : \A f \in BuiltFields : records[n][f] = built[f])
           ELSE records[n] = AccRecord(frame.columns, frame.data[m].cells)

\* C1: once parse_workbook has opened the workbook, the handle is closed
\* before control returns to the caller, on normal return and on error: no
\* execution ends with the handle open.
C1_HandleReleased == pc \in {"returned", "raised"} => wb # "open"

\* C2: no emitted record has a blank identifying field: a permits record
\* has a non-empty permit_number and comes from a row that is not blank in
\* every column; an accreditation record does not have both programme names
\* blank.
C2_DropRule ==
    \A n \in 1..Len(records) :
        IF path.prog = "permits"
        THEN /\ records[n].permit_number.k = "str"
             /\ Strip(records[n].permit_number.s) # <<>>
             /\ \E cell \in {path.sheets[1][origin[n] + 1][c] :
                                 c \in 1..Len(path.sheets[1][origin[n] + 1])} :
                    cell.v.k # "none"
        ELSE \E f \in {"programme_sq", "programme_en"} :
                 records[n][f].k = "str" /\ Strip(records[n][f].s) # <<>>

\* a parse has returned with a record emitted and a row of the sheet dropped
C2_Witness ==
    /\ pc = "returned"
    /\ Len(records) >= 1
    /\ Len(records) < Len(Grid) - frame.header_idx - 1

\* C3: every record of parse_workbook has exactly the 16 keys of
\* FIELD_ORDER, every record of parse_accredited_programmes exactly the 9
\* keys of ACCREDITED_FIELD_ORDER, whatever columns the file has.
C3_RecordComplete ==
    \A n \in 1..Len(records) :
        IF path.prog = "permits"
        THEN /\ DOMAIN records[n] = {FIELD_ORDER[i] : i \in 1..Len(FIELD_ORDER)}
             /\ Cardinality(DOMAIN records[n]) = 16
        ELSE /\ DOMAIN records[n]
                    = {ACCREDITED_FIELD_ORDER[i] : i \in 1..Len(ACCREDITED_FIELD_ORDER)}
             /\ Cardinality(DOMAIN records[n]) = 9

\* a permits record has been emitted from a workbook without an owner column
C3_Witness ==
    /\ path.prog = "permits"
    /\ Len(records) >= 1
    /\ \A i \in 1..Len(cmap.renamed) : cmap.renamed[i] # FieldText["owner"]

\* C4: the records are in the order of the sheet rows they were built from,
\* and each retained row yields exactly one record.
C4_OrderPreserved ==
    /\ Len(origin) = Len(records)
    /\ \A a, b \in 1..Len(origin) : a < b => origin[a] < origin[b]
    /\ \A n \in 1..Len(records) : BuiltFromOrigin(n)
    /\ pc = "returned" => origin = [n \in 1..Len(Retained) |-> Retained[n].idx]

\* a parse has returned two different records, of two rows of the sheet
C4_Witness ==
    /\ pc = "returned"
    /\ Len(records) = 2
    /\ records[1] # records[2]
    /\ origin[1] < origin[2]

\* C5: when no row of the sheet passes the marker test, the parse fails
\* with an error to the caller: nothing is loaded, no record is built, no
\* result is returned.
C5_NoHeaderFails ==
    NoHeaderRow /\ pc # "start" =>
        /\ pc = "raised"
        /\ ret = Raised("ValueError")
        /\ records = <<>>
        /\ DOMAIN frame = {}
        /\ wb = "unopened"

\* a parse of a sheet without a header row has raised
C5_Witness == NoHeaderRow /\ pc = "raised" /\ Len(Grid) >= 2

\* the header row of the accreditation sheet has a label that resolves to
\* institution
InstitutionResolved ==
    \E i \in 1..Len(Grid[frame.header_idx + 1]) :
        AccTarget(ColumnLabels(Grid[frame.header_idx + 1])[i]) = "institution"

\* C8: when no header of the sheet resolves to institution,
\* parse_accredited_programmes fails with an error and returns no records.
C8_InstitutionRequired ==
    path.prog = "accreditation" /\ Loaded /\ pc # "rename" /\ ~InstitutionResolved =>
        /\ pc = "raised"
        /\ ret = Raised("ValueError")
        /\ records = <<>>

\* the parse of a sheet with a column called institution, and no label that
\* resolves to institution, has raised
C8_Witness ==
    /\ path.prog = "accreditation"
    /\ Loaded
    /\ pc = "raised"
    /\ ~InstitutionResolved
    /\ \E i \in 1..Len(frame.columns) : frame.columns[i] = FieldText["institution"]

\* no column of the workbook resolves to destination
DestinationAbsent ==
    \A i \in 1..Len(frame.columns) : header_to_field(frame.columns[i]) # "destination"

\* the destination build_record is to give the row: the comment's normalized
\* text when the row's own destination is blank, the workbook has no
\* destination column and the comment is not blank; the row's own otherwise
ExpectedDestination(cells) ==
    LET own == normalize_destination(RowGet(cmap.renamed, cells, FieldText["destination"]))
        comment == clean_text(RowGet(cmap.renamed, cells, FieldText["comment"]))
    IN  IF own.k = "none" /\ DestinationAbsent /\ comment.k # "none"
        THEN normalize_destination(comment)
        ELSE own

\* C9: the destination of a record is derived from the comment if and only
\* if its own destination is blank, no column of the workbook resolved to
\* destination, and the comment is not blank.
C9_DestinationFallback ==
    path.prog = "permits" =>
        \A n \in 1..Len(records) :
            \E m \in 1..Len(frame.data) :
                /\ frame.data[m].idx = origin[n]
                /\ records[n].destination = ExpectedDestination(frame.data[m].cells)

\* a record has its destination from the comment
C9_Witness ==
    /\ path.prog = "permits"
    /\ Len(records) >= 1
    /\ DestinationAbsent
    /\ records[1].destination.k = "str"

\* C10: the header row found is the topmost row that passes the marker
\* test: it passes, and every row above it fails.
C10_TopmostHeader ==
    Loaded =>
        /\ PassesMarker(frame.header_idx)
        /\ \A i \in 0..(frame.header_idx - 1) : ~PassesMarker(i)

\* a header row has been found in a sheet where a row below it passes the
\* marker test too, and a row above it does not
C10_Witness ==
    /\ Loaded
    /\ frame.header_idx >= 1
    /\ \E i \in (frame.header_idx + 1)..(Len(Grid) - 1) : PassesMarker(i)

\* C7: clean_text is idempotent: for every raw text x,
\* clean_text(clean_text(x)) = clean_text(x), for both clean_text functions.
C7_CleanIdempotent == hpc = "twice" => out2 = out

\* C6: totality of the Value Coercer: to_int, to_float, format_date,
\* parse_decimal, parse_date and extract_hyperlink return a value or null
\* for every input and never raise to the caller.
C6_CoercersTotal == hpc = "once" /\ fn \in CoerceFns \cup {"extract_hyperlink"} => out.k # "raise"

\* the column names after the rename of the pipeline
RenamedColumns == IF path.prog = "permits" THEN cmap.renamed ELSE frame.columns

\* the fields that two or more columns of the workbook resolve to
DuplicateFields ==
    {f \in DOMAIN FieldText :
        Cardinality({i \in 1..Len(RenamedColumns) : RenamedColumns[i] = FieldText[f]}) >= 2}

\* the cell of the last column called key
LaterCell(names, cells, key) ==
    cells[CHOOSE i \in 1..Len(names) :
              names[i] = key /\ \A j \in (i + 1)..Len(names) : names[j] # key]

\* the coercion parse_accredited_programmes applies to a field
AccCoerce(field, value) ==
    IF field \in {"program_number", "ects", "quota"} THEN to_int(value)
    ELSE IF field = "accredited_until" THEN format_date(value)
    ELSE acc_clean_text(value)

\* the value of field f coerced from the later column, in the row cells
LaterValue(f, cells) ==
    IF path.prog = "permits"
    THEN CoerceField(f, LaterCell(RenamedColumns, cells, FieldText[f]))
    ELSE AccCoerce(f, LaterCell(RenamedColumns, cells, FieldText[f]))

\* the columns have been renamed
ColumnsRenamed ==
    IF path.prog = "permits" THEN DOMAIN cmap # {}
    ELSE pc \in {"select", "tuples", "returned"}

\* C11: when two labels of a workbook resolve to the same field, the parse
\* does not fail over it, and every record has for that field the coerced
\* value of the later column's cell.
C11_LaterColumnWins ==
    ColumnsRenamed /\ DuplicateFields # {} =>
        /\ ~(pc = "raised" /\ wb = "open")
        /\ \A n \in 1..Len(records) :
               \E m \in 1..Len(frame.data) :
                   /\ frame.data[m].idx = origin[n]
                   /\ \A f \in DuplicateFields :
                          records[n][f] = LaterValue(f, frame.data[m].cells)

\* the position in the sheet of the column that row.institution reads: the
\* first one whose label resolves to institution
InstitutionColumn ==
    CHOOSE i \in 1..Len(Grid[frame.header_idx + 1]) :
        /\ AccTarget(ColumnLabels(Grid[frame.header_idx + 1])[i]) = "institution"
        /\ \A j \in 1..(i - 1) :
               AccTarget(ColumnLabels(Grid[frame.header_idx + 1])[j]) # "institution"

\* the rows of the sheet under the header, down to row idx, whose institution
\* cell is not empty
InstitutionRows(idx) ==
    {i \in (frame.header_idx + 1)..idx : ~IsNa(Grid[i + 1][InstitutionColumn])}

\* the last of a set of rows
Nearest(rows) == CHOOSE i \in rows : \A j \in rows : j <= i

\* C12: every record of parse_accredited_programmes carries the institution
\* of the nearest row, its own or one above it, whose institution cell is
\* not empty, across the rows that are dropped; a row with no such row is
\* not emitted.
C12_InstitutionFilled ==
    path.prog = "accreditation" =>
        \A n \in 1..Len(records) :
            /\ InstitutionRows(origin[n]) # {}
            /\ records[n].institution
                   = acc_clean_text(Grid[Nearest(InstitutionRows(origin[n])) + 1][InstitutionColumn])

\* a record has its institution from a row above it that is not emitted,
\* under another row with an institution
C12_Witness ==
    /\ path.prog = "accreditation"
    /\ \E n \in 1..Len(records) :
           /\ IsNa(Grid[origin[n] + 1][InstitutionColumn])
           /\ records[n].institution.k = "str"
           /\ \A k \in 1..Len(records) : origin[k] # Nearest(InstitutionRows(origin[n]))
           /\ Cardinality(InstitutionRows(origin[n])) >= 2

\* the link extract_hyperlink finds in column column_index of the sheet the
\* data grid is read from, in the sheet row of record n
LinkOfDataRow(n, column_index) ==
    extract_hyperlink(path.sheets[1], column_index, origin[n] + 1)

\* C13: document_url and situation_url of every record of parse_workbook
\* are read from the sheet and the sheet row of the data row the record was
\* built from.
C13_LinksFromDataRow ==
    path.prog = "permits" =>
        \A n \in 1..Len(records) :
            /\ records[n].document_url = LinkOfDataRow(n, cmap.pdf_col_excel)
            /\ records[n].situation_url = LinkOfDataRow(n, cmap.situation_col_excel)

====
